---------------------------- MODULE Spec2Model ----------------------------
(***************************************************************************)
(* smokey: a terminal typing trainer.                                      *)
(*                                                                         *)
(* Two parts of the program are modelled:                                  *)
(*   - prep_test (langs.rs): folds a word list into width-bounded lines of *)
(*     styled spans, decorating words with punctuation and capitals;       *)
(*   - test_key_handle (testkeys.rs) inside the event loop of main.rs: the *)
(*     per-keystroke state machine over the span buffer.                   *)
(*                                                                         *)
(* A string is a sequence of one-character strings; a Span is a record     *)
(* [content, style]; indices of the source are 0-based, so the source's    *)
(* text[i] is text[i + 1] here.                                            *)
(***************************************************************************)
EXTENDS Integers, Sequences, FiniteSets, TLC

VARIABLES
    pt,       \* prep_test: its locals, the loop position and the draws made
    app,      \* App: cursor_x, should_quit
    test,     \* TestState: text, done, blanks, correct, mistakes, ...
    main_pc,  \* position of main's event loop
    log,      \* <<what calculate_wpm saw>> if the last key event completed a test, or <<>>
    hist,     \* the last two key events of the running test, with the counters before them
    cfg,      \* what a run of the event loop is confined to: buffers, keyboard, budgets
    gs,       \* get_shuffled_words: the word file, the sampled indices, its locals
    sf        \* settings.rs: the function being run, its argument and its locals

vars == <<pt, app, test, main_pc, log, hist, cfg, gs, sf>>

\* a part of the program that does not run in the specification at hand
Idle == [pc |-> "idle"]

None == "None"

\* no key event handled yet
NoHistory == [clean |-> TRUE, keys |-> <<>>]

----------------------------------------------------------------------------
(* Bounds of the model *)

\* longest word list handed to prep_test
MaxWords == 3

\* number of line widths tried above the narrowest one that fits every word
LimitSpan == 1

\* most mismatching keystrokes followed within one attempt
MaxMistakes == 3

\* most matching keystrokes followed within one attempt
MaxCorrect == 5
\* mismatching characters a test of SpecOverflow may see beyond OverflowCap
ExtraMistakes == 1
\* lines of the word file of SpecWords
MaxLines == 4
\* how far around each preset the word counts of SpecSettings go
CountSpread == 1
\* items past the first that the runs of SpecMenu visit in the lists of
\* lengths and of mods
SideItems == 1

----------------------------------------------------------------------------
(* Characters and strings *)

RECURSIVE SumSeq(_)
SumSeq(s) == IF s = <<>> THEN 0 ELSE Head(s) + SumSeq(Tail(s))

RECURSIVE Flatten(_)
Flatten(ss) == IF ss = <<>> THEN <<>> ELSE Head(ss) \o Flatten(Tail(ss))

Max(S) == CHOOSE x \in S : \A y \in S : y <= x

\* char::len_utf8: the sharp s takes two bytes, ASCII takes one
Utf8Len(c) == IF c = "ß" THEN 2 ELSE 1

\* str::len: the length in bytes
StrLen(word) == SumSeq([k \in 1..Len(word) |-> Utf8Len(word[k])])

\* char::to_uppercase: an iterator of one or more characters
ToUppercase(c) ==
    CASE c = "a" -> <<"A">>
      [] c = "b" -> <<"B">>
      [] c = "ß" -> <<"S", "S">>
      [] OTHER   -> <<c>>

Uppercase == {"A", "B", "S"}

Span(content, style) == [content |-> content, style |-> style]

\* Vec::pop, which leaves an empty vector alone
Pop(v) == IF v = <<>> THEN v ELSE SubSeq(v, 1, Len(v) - 1)

\* slice::swap, indices from 0
Swap(v, i, j) ==
    [k \in 1..Len(v) |-> IF k = i + 1 THEN v[j + 1]
                         ELSE IF k = j + 1 THEN v[i + 1] ELSE v[k]]

----------------------------------------------------------------------------
(* langs.rs: Punctuation and prep_test *)

\* the variants of enum Punctuation, one representative of each
PNull     == [kind |-> "Null",     a |-> None, z |-> None]
PEnd      == [kind |-> "End",      a |-> ".",  z |-> None]
PNormal   == [kind |-> "Normal",   a |-> ",",  z |-> None]
PPaired   == [kind |-> "Paired",   a |-> "(",  z |-> ")"]
PDashLike == [kind |-> "DashLike", a |-> "-",  z |-> None]

\* PFreq::choose: every symbol of the table has a positive weight
Punctuation == {PNull, PEnd, PNormal, PPaired, PDashLike}

\* add_space_with_blank, had it given the space the style of the slot
PairInSlotStyle(container) ==
    container \o <<Span(<<>>, "wrong"), Span(<<" ">>, "wrong")>>

\* the two spans pushed after every word
add_space_with_blank(container) ==
    container \o <<Span(<<>>, "wrong"), Span(<<" ">>, "todo")>>

\* one todo span per character of s
Glyphs(s) == [k \in 1..Len(s) |-> Span(<<s[k]>>, "todo")]

OptGlyph(c) == IF c = None THEN <<>> ELSE <<Span(<<c>>, "todo")>>

\* the line break taken before a word is rendered
BreakLine(p, word) ==
    LET count == p.count + StrLen(word) + 1
    IN  IF count > p.limit
        THEN [p EXCEPT !.test = p.test \o p.tmp, !.tmp = <<<<>>>>,
                       !.count = StrLen(word)]
        ELSE [p EXCEPT !.count = count]

\* match punct: the new values of capitalize, begin and end
Decorate(p, punct) ==
    CASE punct.kind = "Null" ->
            [p EXCEPT !.begin = None, !.end = None]
      [] punct.kind = "End" ->
            [p EXCEPT !.capitalize = TRUE, !.begin = None, !.end = punct.a]
      [] punct.kind = "Normal" ->
            [p EXCEPT !.begin = None, !.end = punct.a]
      [] punct.kind = "Paired" ->
            [p EXCEPT !.begin = punct.a, !.end = punct.z]
      [] punct.kind = "DashLike" ->
            [p EXCEPT !.begin = None, !.end = None]

\* the spans pushed to tmp[0] for one word, the trailing pair included
RenderWord(p, word) ==
    add_space_with_blank(
        OptGlyph(p.begin)
        \o (IF p.capitalize
            THEN Glyphs(ToUppercase(Head(word))) \o Glyphs(Tail(word))
            ELSE Glyphs(word))
        \o OptGlyph(p.end))

\* one iteration of `for word in &prep`, with the draw of p.choose given
LoopBody(p, punct) ==
    LET word == p.prep[p.i + 1]
        q    == Decorate(BreakLine(p, word), punct)
    IN  [q EXCEPT !.tmp[1] = q.tmp[1] \o RenderWord(q, word),
                  !.capitalize = FALSE,
                  !.i = p.i + 1,
                  !.drawn = Append(p.drawn, punct)]

\* Finish, had it kept the pair after the last word
FinishNoPop(p) ==
    LET all == p.test \o p.tmp
    IN  [p EXCEPT !.test = Swap(all, 0, Len(all) - 1), !.tmp = <<>>,
                  !.pc = "done"]

\* Finish, had it left the lines in the order generated
FinishNoSwap(p) ==
    LET last == Len(p.tmp) - 1
        tmp  == [p.tmp EXCEPT ![last + 1] = Pop(Pop(p.tmp[last + 1]))]
    IN  [p EXCEPT !.test = p.test \o tmp, !.tmp = <<>>, !.pc = "done"]

\* Finish, had it moved the last line to the front and shifted the others
FinishRotates(p) ==
    LET last == Len(p.tmp) - 1
        tmp  == [p.tmp EXCEPT ![last + 1] = Pop(Pop(p.tmp[last + 1]))]
        all  == p.test \o tmp
    IN  [p EXCEPT !.test = <<all[Len(all)]>> \o Pop(all), !.tmp = <<>>,
                  !.pc = "done"]

\* the statements after the loop: drop the last pair, append, swap
Finish(p) ==
    LET last == Len(p.tmp) - 1
        tmp  == [p.tmp EXCEPT ![last + 1] = Pop(Pop(p.tmp[last + 1]))]
        all  == p.test \o tmp
    IN  [p EXCEPT !.test = Swap(all, 0, Len(all) - 1), !.tmp = <<>>,
                  !.pc = "done"]

\* the locals of prep_test before the loop
PrepStart(words, limit) ==
    [prep |-> words, limit |-> limit, i |-> 0,
     test |-> <<>>, tmp |-> <<<<>>>>, count |-> 0,
     capitalize |-> FALSE, begin |-> None, end |-> None,
     drawn |-> <<>>, pc |-> "loop"]

\* prep_test run to its end with the given draws
RECURSIVE PrepRun(_, _)
PrepRun(p, draws) ==
    IF p.i = Len(p.prep) THEN Finish(p)
    ELSE PrepRun(LoopBody(p, draws[p.i + 1]), draws)

prep_test(words, draws, limit) == PrepRun(PrepStart(words, limit), draws).test

\* the word lists sampled in the model: non-empty lower-case words without
\* whitespace, as get_shuffled_words reads them from a word file
WordPool == {<<"a">>, <<"b", "a">>, <<"ß", "a", "b">>}

SeqsUpTo(S, n) == UNION {[1..k -> S] : k \in 1..n}

\* config.length >= 1 words (Randorst::gen(length, ..) yields `length` indices)
WordLists == SeqsUpTo(WordPool, MaxWords)

\* widths wide enough for every single word and its separator
MinLimit == Max({StrLen(w) : w \in WordPool}) + 1
Limits == MinLimit..(MinLimit + LimitSpan)

\* not in use while the other part of the program runs
PrepIdle == [pc |-> "idle"]

InitPrep ==
    /\ pt \in {PrepStart(ws, l) : ws \in WordLists, l \in Limits}
    /\ app = [cursor_x |-> 0, should_quit |-> FALSE]
    /\ test = [text |-> <<>>]
    /\ main_pc = "idle"
    /\ log = <<>>
    /\ hist = NoHistory
    /\ cfg = Idle
    /\ gs = Idle
    /\ sf = Idle

PrepWord ==
    /\ pt.pc = "loop"
    /\ pt.i < Len(pt.prep)
    /\ \E punct \in Punctuation : pt' = LoopBody(pt, punct)
    /\ UNCHANGED <<app, test, main_pc, log, hist, cfg, gs, sf>>

PrepFinish ==
    /\ pt.pc = "loop"
    /\ pt.i = Len(pt.prep)
    /\ pt' = Finish(pt)
    /\ UNCHANGED <<app, test, main_pc, log, hist, cfg, gs, sf>>

NextPrep == PrepWord \/ PrepFinish

SpecPrep == InitPrep /\ [][NextPrep]_vars

----------------------------------------------------------------------------
(* Properties of prep_test *)

\* the lines in the order they were generated: before the final swap they
\* are test followed by tmp, after it the swap is undone
GenLines(p) ==
    IF p.pc = "done" THEN Swap(p.test, 0, Len(p.test) - 1) ELSE p.test \o p.tmp

\* the spans of each word, cut at the overflow slot and space that follow it
RECURSIVE SplitWords(_, _)
SplitWords(spans, cur) ==
    IF spans = <<>> THEN (IF cur = <<>> THEN <<>> ELSE <<cur>>)
    ELSE IF Head(spans).content = <<>>
         THEN <<cur>> \o SplitWords(Tail(Tail(spans)), <<>>)
         ELSE SplitWords(Tail(spans), Append(cur, Head(spans)))

RenderedWords(p) == SplitWords(Flatten(GenLines(p)), <<>>)

Capitalized(w) == \E k \in 1..Len(w) : w[k].content[1] \in Uppercase

\* the visible width of a line: the characters of all its spans
Width(line) == SumSeq([k \in 1..Len(line) |-> Len(line[k].content)])

NonEmptySpans(line) == Cardinality({k \in 1..Len(line) : line[k].content # <<>>})

SpaceSpans(line) == Cardinality({k \in 1..Len(line) : line[k].content = <<" ">>})

EndsWithPair(line) ==
    /\ Len(line) >= 2
    /\ line[Len(line) - 1].content = <<>>
    /\ line[Len(line)].content = <<" ">>

\* what the last word of prep renders to, without its trailing pair
LastWordSpans(p) ==
    LET L == Len(p.prep)
    IN  Pop(Pop(RenderWord(Decorate(PrepStart(p.prep, p.limit), p.drawn[L]),
                           p.prep[L])))

IsSuffix(suf, s) ==
    /\ Len(suf) <= Len(s)
    /\ SubSeq(s, Len(s) - Len(suf) + 1, Len(s)) = suf

\* C6: in the buffer prep_test returns, a word is capitalized exactly when
\* the word before it drew a Sentence-End punctuation; the word carrying the
\* punctuation is not capitalized by its own draw.
C6_CapitalizesFollowingWord ==
    pt.pc = "done" =>
        \A j \in 1..Len(pt.prep) :
            Capitalized(RenderedWords(pt)[j])
                <=> (j > 1 /\ pt.drawn[j - 1].kind = "End")

\* C7: every line of the returned buffer other than the one at index 0 (the
\* line holding the last word) has a visible width, punctuation glyphs and
\* separator spaces included, of at most limit.
C7_LinesWithinLimit ==
    pt.pc = "done" =>
        \A k \in 2..Len(pt.test) : Width(pt.test[k]) <= pt.limit

\* C8: every line of the returned buffer has at most limit + 1 spans with
\* non-empty content.
C8_NonEmptySpansWithinLimitPlusOne ==
    pt.pc = "done" =>
        \A k \in 1..Len(pt.test) : NonEmptySpans(pt.test[k]) <= pt.limit + 1

\* C9: the returned buffer holds exactly L - 1 single-space spans for a list
\* of L >= 1 words: one after every word but the last.
C9_SeparatorsAreLengthMinusOne ==
    pt.pc = "done" =>
        SumSeq([k \in 1..Len(pt.test) |-> SpaceSpans(pt.test[k])])
            = Len(pt.prep) - 1

C9_Witness ==
    /\ pt.pc = "done"
    /\ Len(pt.prep) = MaxWords
    /\ Len(pt.test) >= 2
    /\ \E j \in 1..Len(pt.drawn) : pt.drawn[j].kind = "Paired"

----------------------------------------------------------------------------
(* TestState and App as test_key_handle uses them.  A world w is the record *)
(* [app, test, log, fresh] a handler reads and writes; fresh tells that the *)
(* handler replaced the test by a new one.                                  *)

\* the ceiling on the bytes of an overflow slot
OverflowCap == 8

\* column of the cursor when a test starts
CursorStart == 1

\* app.cursor_x is a u16: += and -= without overflow checks wrap around
AddU16(a, b) == (a + b) % 65536
SubU16(a, b) == (a - b) % 65536

\* TestState::fetch
fetch(t, index) == t.text[index + 1].content

\* TestState::change
change(t, index, item) == [t EXCEPT !.text[index + 1].content = item]

\* test.text[index].style = style
SetStyle(t, index, style) == [t EXCEPT !.text[index + 1].style = style]

\* TestState::get_next_char: the first character of the span at done
get_next_char(t) ==
    IF fetch(t, t.done) = <<>> THEN None ELSE Head(fetch(t, t.done))

\* TestState::set_next_char: a None here aborts the program
set_next_char(t) == [t EXCEPT !.current_char = get_next_char(t)]

\* TestState::restart_test with the buffer prep_test generated
restart_test(w, buf) ==
    [w EXCEPT !.app.cursor_x = CursorStart,
              !.fresh = TRUE,
              !.test = [text |-> buf, done |-> 0, blanks |-> 0,
                        correct |-> 0, mistakes |-> 0,
                        current_char |-> Head(buf[1].content),
                        test_length |-> Len(buf)]]

\* what calculate_wpm reads when the test completes
Summary(t) ==
    [done |-> t.done, correct |-> t.correct, mistakes |-> t.mistakes,
     test_length |-> t.test_length, text |-> t.text, clean |-> FALSE]

\* set_next_char_beware_blanks, had it skipped the slot without counting it
SkipBlankUncounted(t) ==
    IF get_next_char(t) # None
    THEN [t EXCEPT !.current_char = get_next_char(t)]
    ELSE set_next_char([t EXCEPT !.done = t.done + 1])

set_next_char_beware_blanks(t) ==
    IF get_next_char(t) # None
    THEN [t EXCEPT !.current_char = get_next_char(t)]
    ELSE set_next_char([t EXCEPT !.done = t.done + 1, !.blanks = t.blanks + 1])

\* set_next_char_or_end, had it ended the test one span early
EndOneEarly(w, buf) ==
    IF w.test.done + 1 < w.test.test_length
    THEN [w EXCEPT !.test = set_next_char_beware_blanks(w.test)]
    ELSE restart_test([w EXCEPT !.log = <<Summary(w.test)>>], buf)

set_next_char_or_end(w, buf) ==
    IF w.test.done < w.test.test_length
    THEN [w EXCEPT !.test = set_next_char_beware_blanks(w.test)]
    ELSE restart_test([w EXCEPT !.log = <<Summary(w.test)>>], buf)

\* the `while` of the Control branch: back to the start of the word
RECURSIVE UndoWord(_)
UndoWord(w) ==
    IF w.test.done # 0 /\ fetch(w.test, w.test.done - 1) # <<" ">>
    THEN UndoWord([w EXCEPT !.app.cursor_x = SubU16(w.app.cursor_x, 1),
                            !.test = SetStyle([w.test EXCEPT !.done = w.test.done - 1],
                                              w.test.done - 1, "todo")])
    ELSE w

\* UndoOverflow, had it left the slot it steps back over as it was
UndoKeepsSlotContent(w) ==
    LET t == w.test
    IN  IF t.current_char = " "
        THEN [w EXCEPT
                !.app.cursor_x = SubU16(w.app.cursor_x, StrLen(fetch(t, t.done - 1)) + 1),
                !.test = [SetStyle(t, t.done - 2, "todo")
                            EXCEPT !.done = t.done - 2, !.blanks = t.blanks - 1]]
        ELSE IF fetch(t, t.done - 1) = <<" ">>
        THEN [w EXCEPT
                !.app.cursor_x = SubU16(w.app.cursor_x, StrLen(fetch(t, t.done - 2)) + 2),
                !.test = [SetStyle(SetStyle(t, t.done - 1, "todo"),
                                   t.done - 3, "todo")
                            EXCEPT !.done = t.done - 3, !.blanks = t.blanks - 1]]
        ELSE w

\* UndoOverflow, had it left the style of the space it steps back over
UndoKeepsSpaceStyle(w) ==
    LET t == w.test
    IN  IF t.current_char = " "
        THEN [w EXCEPT
                !.app.cursor_x = SubU16(w.app.cursor_x, StrLen(fetch(t, t.done - 1)) + 1),
                !.test = [SetStyle(change(t, t.done - 1, <<>>), t.done - 2, "todo")
                            EXCEPT !.done = t.done - 2, !.blanks = t.blanks - 1]]
        ELSE IF fetch(t, t.done - 1) = <<" ">>
        THEN [w EXCEPT
                !.app.cursor_x = SubU16(w.app.cursor_x, StrLen(fetch(t, t.done - 2)) + 2),
                !.test = [SetStyle(change(t, t.done - 2, <<>>), t.done - 3, "todo")
                            EXCEPT !.done = t.done - 3, !.blanks = t.blanks - 1]]
        ELSE w

\* UndoOverflow, had it kept counting the slot it steps back over from a
\* word's first character
UndoKeepsBlank(w) ==
    LET t == w.test
    IN  IF t.current_char = " "
        THEN [w EXCEPT
                !.app.cursor_x = SubU16(w.app.cursor_x, StrLen(fetch(t, t.done - 1)) + 1),
                !.test = [SetStyle(change(t, t.done - 1, <<>>), t.done - 2, "todo")
                            EXCEPT !.done = t.done - 2, !.blanks = t.blanks - 1]]
        ELSE IF fetch(t, t.done - 1) = <<" ">>
        THEN [w EXCEPT
                !.app.cursor_x = SubU16(w.app.cursor_x, StrLen(fetch(t, t.done - 2)) + 2),
                !.test = [SetStyle(SetStyle(change(t, t.done - 2, <<>>),
                                            t.done - 1, "todo"),
                                   t.done - 3, "todo")
                            EXCEPT !.done = t.done - 3]]
        ELSE w

\* the two shapes unwound before the loop of the Control branch
UndoOverflow(w) ==
    LET t == w.test
    IN  IF t.current_char = " "
        THEN [w EXCEPT
                !.app.cursor_x = SubU16(w.app.cursor_x, StrLen(fetch(t, t.done - 1)) + 1),
                !.test = [SetStyle(change(t, t.done - 1, <<>>), t.done - 2, "todo")
                            EXCEPT !.done = t.done - 2, !.blanks = t.blanks - 1]]
        ELSE IF fetch(t, t.done - 1) = <<" ">>
        THEN [w EXCEPT
                !.app.cursor_x = SubU16(w.app.cursor_x, StrLen(fetch(t, t.done - 2)) + 2),
                !.test = [SetStyle(SetStyle(change(t, t.done - 2, <<>>),
                                            t.done - 1, "todo"),
                                   t.done - 3, "todo")
                            EXCEPT !.done = t.done - 3, !.blanks = t.blanks - 1]]
        ELSE w

\* if let KeyModifiers::CONTROL = key.modifiers
ControlBranch(w) ==
    IF w.test.done = 0 THEN w
    ELSE LET u == UndoWord(UndoOverflow(w))
         IN  [u EXCEPT !.test = set_next_char(u.test)]

\* CorrectKey, had it left the correct counter alone
CorrectKeyUncounted(w, buf) ==
    LET t == w.test
    IN  set_next_char_or_end(
            [w EXCEPT !.test = [SetStyle(t, t.done, "done")
                                  EXCEPT !.done = t.done + 1]],
            buf)

\* KeyCode::Char(c), c == test.current_char
CorrectKey(w, buf) ==
    LET t == w.test
    IN  set_next_char_or_end(
            [w EXCEPT !.test = [SetStyle(t, t.done, "done")
                                  EXCEPT !.correct = t.correct + 1,
                                         !.done = t.done + 1]],
            buf)

\* KeyCode::Char(c), c != test.current_char
\* WrongKey, had the slot no ceiling
WrongKeyUncapped(w, c, buf) ==
    LET t == [w.test EXCEPT !.mistakes = w.test.mistakes + 1]
    IN  IF t.current_char = " "
        THEN [w EXCEPT !.test = change(t, t.done - 1,
                                       Append(fetch(t, t.done - 1), c))]
        ELSE set_next_char_or_end(
                [w EXCEPT !.test = [SetStyle(t, t.done, "wrong")
                                      EXCEPT !.done = t.done + 1]],
                buf)

WrongKey(w, c, buf) ==
    LET t == [w.test EXCEPT !.mistakes = w.test.mistakes + 1]
    IN  IF t.current_char = " "
        THEN IF StrLen(fetch(t, t.done - 1)) < OverflowCap
             THEN [w EXCEPT !.test = change(t, t.done - 1,
                                            Append(fetch(t, t.done - 1), c))]
             ELSE [w EXCEPT !.test = t, !.app.cursor_x = SubU16(w.app.cursor_x, 1)]
        ELSE set_next_char_or_end(
                [w EXCEPT !.test = [SetStyle(t, t.done, "wrong")
                                      EXCEPT !.done = t.done + 1]],
                buf)

CharBranch(w, c, buf) ==
    LET v == [w EXCEPT !.app.cursor_x = AddU16(w.app.cursor_x, 1)]
    IN  IF c = w.test.current_char THEN CorrectKey(v, buf) ELSE WrongKey(v, c, buf)

\* BackspaceBranch, had it left the style of the span it returns to
BackspaceNoRestyle(w) ==
    LET t == w.test
    IN  IF t.done > 0
        THEN LET v == [w EXCEPT !.app.cursor_x = SubU16(w.app.cursor_x, 1)]
             IN  IF t.current_char = " "
                 THEN IF fetch(t, t.done - 1) = <<>>
                      THEN [v EXCEPT !.test =
                              set_next_char([t EXCEPT !.done = t.done - 2,
                                                      !.blanks = t.blanks - 1])]
                      ELSE [v EXCEPT !.test =
                              change(t, t.done - 1, Pop(fetch(t, t.done - 1)))]
                 ELSE [v EXCEPT !.test = set_next_char([t EXCEPT !.done = t.done - 1])]
        ELSE w

\* BackspaceBranch, had it stepped back by one span over an empty slot
BackspaceOntoSlot(w) ==
    LET t == w.test
    IN  IF t.done > 0
        THEN LET v == [w EXCEPT !.app.cursor_x = SubU16(w.app.cursor_x, 1)]
             IN  IF t.current_char = " " /\ fetch(t, t.done - 1) # <<>>
                 THEN [v EXCEPT !.test =
                         change(t, t.done - 1, Pop(fetch(t, t.done - 1)))]
                 ELSE [v EXCEPT !.test =
                         SetStyle(set_next_char([t EXCEPT !.done = t.done - 1]),
                                  t.done - 1, "todo")]
        ELSE w

\* BackspaceBranch, had it taken back the mistake it erases
BackspaceForgives(w) ==
    LET t == w.test
        m == IF t.mistakes > 0 THEN t.mistakes - 1 ELSE 0
    IN  IF t.done > 0
        THEN LET v == [w EXCEPT !.app.cursor_x = SubU16(w.app.cursor_x, 1)]
             IN  IF t.current_char = " "
                 THEN IF fetch(t, t.done - 1) = <<>>
                      THEN [v EXCEPT !.test =
                              SetStyle(set_next_char([t EXCEPT !.done = t.done - 2,
                                                               !.blanks = t.blanks - 1]),
                                       t.done - 2, "todo")]
                      ELSE [v EXCEPT !.test =
                              [change(t, t.done - 1, Pop(fetch(t, t.done - 1)))
                                 EXCEPT !.mistakes = m]]
                 ELSE [v EXCEPT !.test =
                         SetStyle(set_next_char([t EXCEPT !.done = t.done - 1]),
                                  t.done - 1, "todo")]
        ELSE w

\* KeyCode::Backspace
BackspaceBranch(w) ==
    LET t == w.test
    IN  IF t.done > 0
        THEN LET v == [w EXCEPT !.app.cursor_x = SubU16(w.app.cursor_x, 1)]
             IN  IF t.current_char = " "
                 THEN IF fetch(t, t.done - 1) = <<>>
                      THEN [v EXCEPT !.test =
                              SetStyle(set_next_char([t EXCEPT !.done = t.done - 2,
                                                               !.blanks = t.blanks - 1]),
                                       t.done - 2, "todo")]
                      ELSE [v EXCEPT !.test =
                              change(t, t.done - 1, Pop(fetch(t, t.done - 1)))]
                 ELSE [v EXCEPT !.test =
                         SetStyle(set_next_char([t EXCEPT !.done = t.done - 1]),
                                  t.done - 1, "todo")]
        ELSE w

\* key is [code, c, modifiers]; buf is the buffer a restart would generate
test_key_handle(key, w, buf) ==
    IF key.modifiers = "CONTROL" THEN ControlBranch(w)
    ELSE CASE key.code = "Char"      -> CharBranch(w, key.c, buf)
           [] key.code = "Backspace" -> BackspaceBranch(w)
           [] key.code = "Tab"       -> restart_test(w, buf)
           [] key.code = "Esc"       -> [w EXCEPT !.app.should_quit = TRUE]
           [] OTHER                  -> w

----------------------------------------------------------------------------
(* main.rs: the event loop around test_key_handle *)

\* the width the tests of langs.rs lay their lines out with
TestLimit == 65

\* the word lists of the typing tests of the model: one word, two words of
\* either length order, three words
TestWordLists ==
    {<<<<"a">>>>, <<<<"a", "b">>>>,
     <<<<"a">>, <<"a", "b">>>>, <<<<"b", "a">>, <<"b">>>>,
     <<<<"a">>, <<"b">>, <<"a">>>>}

\* TestState.text for a word list: the spans of prep_test, no punctuation drawn
TestBuffer(words) ==
    Flatten(prep_test(words, [k \in 1..Len(words) |-> PNull], TestLimit))

Buffers == {TestBuffer(ws) : ws \in TestWordLists}

\* the characters of the keyboard of the model
KeyChars == {"a", "b", " "}

Key(code, c, modifiers) == [code |-> code, c |-> c, modifiers |-> modifiers]

\* how a key event relates to the test it arrives in
KeyKind(key, t) ==
    IF key.modifiers = "CONTROL" THEN "Control"
    ELSE IF key.code = "Char"
         THEN (IF key.c = t.current_char THEN "match" ELSE "mismatch")
         ELSE key.code

\* what is remembered of the key events handled: the last two of them (the
\* kind of each, the counters it found, whether it started a new test), and
\* whether the running test has seen nothing but matching characters
Remember(h, key, t, fresh) ==
    LET e == [kind |-> KeyKind(key, t), done |-> t.done,
              mistakes |-> t.mistakes, correct |-> t.correct,
              cursor_x |-> app.cursor_x, fresh |-> fresh]
    IN  [clean |-> fresh \/ (h.clean /\ e.kind = "match"),
         keys  |-> IF Len(h.keys) < 2 THEN Append(h.keys, e)
                   ELSE <<h.keys[2], e>>]

World == [app |-> app, test |-> test, log |-> log, fresh |-> FALSE]

\* main up to its loop, for a run confined to c
Start(c) ==
    /\ pt = PrepIdle
    /\ cfg = c
    /\ gs = Idle
    /\ sf = Idle
    /\ \E buf \in c.buffers :
          LET w == restart_test([app |-> [cursor_x |-> 0, should_quit |-> FALSE],
                                 test |-> [text |-> <<>>], log |-> <<>>,
                                 fresh |-> FALSE], buf)
          IN  app = w.app /\ test = w.test /\ log = w.log
    /\ main_pc = "loop"
    /\ hist = NoHistory

\* the runs of Spec: the buffers and keyboard above, a few keystrokes of each kind
MainCfg ==
    [buffers |-> Buffers, keys |-> KeyChars,
     max_mistakes |-> MaxMistakes, max_correct |-> MaxCorrect]

Init == Start(MainCfg)

\* Draw, had the loop not looked at should_quit
DrawRegardless ==
    /\ main_pc = "loop"
    /\ main_pc' = "poll"
    /\ UNCHANGED <<pt, app, test, log, hist, cfg, gs, sf>>

\* while !app.should_quit { draw(..)
Draw ==
    /\ main_pc = "loop"
    /\ ~app.should_quit
    /\ main_pc' = "poll"
    /\ UNCHANGED <<pt, app, test, log, hist, cfg, gs, sf>>

\* the loop ends: cleanup_terminal
Exit ==
    /\ main_pc = "loop"
    /\ app.should_quit
    /\ main_pc' = "exit"
    /\ UNCHANGED <<pt, app, test, log, hist, cfg, gs, sf>>

\* poll times out, or the event read is not a key event
NoKey ==
    /\ main_pc = "poll"
    /\ main_pc' = "loop"
    /\ UNCHANGED <<pt, app, test, log, hist, cfg, gs, sf>>

\* the buffers a restart may generate; one stands for all of them when the
\* handler does not restart the test
SomeBuffer == CHOOSE buf \in cfg.buffers : TRUE

NewBuffers(key) ==
    IF test_key_handle(key, World, SomeBuffer).fresh THEN cfg.buffers
    ELSE {SomeBuffer}

\* read() returns a key event and test_key_handle runs on it
Press(key) ==
    /\ main_pc = "poll"
    /\ test.current_char # None
    /\ \E buf \in NewBuffers(key) :
          LET w == test_key_handle(key, [World EXCEPT !.log = <<>>], buf)
          IN  /\ app' = w.app
              /\ test' = w.test
              /\ log' = [k \in 1..Len(w.log) |->
                            [w.log[k] EXCEPT
                                !.clean = Remember(hist, key, test, FALSE).clean]]
              /\ hist' = Remember(hist, key, test, w.fresh)
    /\ main_pc' = "loop"
    /\ UNCHANGED <<pt, cfg, gs, sf>>

KeyChar ==
    \E c \in cfg.keys :
        /\ IF c = test.current_char THEN test.correct < cfg.max_correct
                                    ELSE test.mistakes < cfg.max_mistakes
        /\ Press(Key("Char", c, "NONE"))

KeyBackspace == Press(Key("Backspace", None, "NONE"))

KeyTab == Press(Key("Tab", None, "NONE"))

KeyEsc == Press(Key("Esc", None, "NONE"))

\* any other key code, an arrow key for one
KeyOther == Press(Key("Up", None, "NONE"))

\* a key event whose modifiers are exactly CONTROL, whatever its code
KeyControl ==
    \E k \in {Key("Char", "h", "CONTROL"), Key("Backspace", None, "CONTROL"),
              Key("Esc", None, "CONTROL")} : Press(k)

Next ==
    \/ Draw
    \/ Exit
    \/ NoKey
    \/ KeyChar
    \/ KeyBackspace
    \/ KeyTab
    \/ KeyEsc
    \/ KeyOther
    \/ KeyControl

Spec == Init /\ [][Next]_vars

\* the runs of SpecOverflow: one test of two words, a keyboard of two
\* characters, enough mismatches to fill an overflow slot and go on
OverflowCfg ==
    [buffers |-> {TestBuffer(<<<<"a">>, <<"a">>>>)},
     keys |-> {"a", " "},
     max_mistakes |-> OverflowCap + ExtraMistakes,
     max_correct |-> MaxCorrect]

SpecOverflow == Start(OverflowCfg) /\ [][Next]_vars

\* the runs of SpecWide: one test of two words, a keyboard with a character
\* of two bytes (KeyCode::Char carries any char)
WideCfg ==
    [buffers |-> {TestBuffer(<<<<"a">>, <<"a">>>>)},
     keys |-> {"a", "ß", " "},
     max_mistakes |-> MaxMistakes,
     max_correct |-> MaxCorrect]

SpecWide == Start(WideCfg) /\ [][Next]_vars

----------------------------------------------------------------------------
(* Properties of the input state machine *)

\* the overflow slot of a word is the span right before the space after it
IsSlot(t, index) ==
    /\ index + 2 <= Len(t.text)
    /\ t.text[index + 2].content = <<" ">>

\* the indices below done whose span carries the style
Resolved(t, style) == {i \in 0..(t.done - 1) : t.text[i + 1].style = style}

\* the same, overflow slots left out
ResolvedGlyphs(t, style) == {i \in Resolved(t, style) : ~IsSlot(t, i)}

LastKey == hist.keys[Len(hist.keys)]

LastKeys(kind1, kind2) ==
    /\ Len(hist.keys) = 2
    /\ hist.keys[1].kind = kind1
    /\ hist.keys[2].kind = kind2

\* typing the expected character n times, from world w
RECURSIVE TypeExpected(_, _, _)
TypeExpected(w, n, buf) ==
    IF n = 0 THEN w
    ELSE TypeExpected(
            test_key_handle(Key("Char", w.test.current_char, "NONE"), w, buf),
            n - 1, buf)

Fresh(buf) ==
    restart_test([app |-> [cursor_x |-> 0, should_quit |-> FALSE],
                  test |-> [text |-> <<>>], log |-> <<>>, fresh |-> FALSE], buf)

CatDog == TestBuffer(<<<<"c", "a", "t">>, <<"d", "o", "g">>>>)

\* C1 as stated: done is the number of spans below done styled Correct plus
\* the number styled Incorrect plus blanks, and 0 <= done <= test_length.
C1_DoneCountsStyledSpans ==
    /\ test.done = Cardinality(Resolved(test, "done"))
                   + Cardinality(Resolved(test, "wrong")) + test.blanks
    /\ 0 <= test.done
    /\ test.done <= test.test_length

\* C1 amended: done is the number of glyph and space spans below done styled
\* Correct plus the number of those styled Incorrect plus blanks, overflow
\* slots (which carry the Incorrect style from generation) being counted by
\* blanks alone; and 0 <= done <= test_length.
C1_DoneCountsResolvedGlyphs ==
    /\ test.done = Cardinality(ResolvedGlyphs(test, "done"))
                   + Cardinality(ResolvedGlyphs(test, "wrong")) + test.blanks
    /\ 0 <= test.done
    /\ test.done <= test.test_length

C1_Witness ==
    /\ Len(hist.keys) = 2
    /\ LastKey.kind \in {"Backspace", "Control"}
    /\ test.blanks >= 1
    /\ ResolvedGlyphs(test, "done") # {}
    /\ ResolvedGlyphs(test, "wrong") # {}

\* C2: every span below done has a style other than Pending, and the span
\* at done, when its content is not empty, is Pending.
C2_ResolvedNotPendingCursorPending ==
    /\ \A i \in 0..(test.done - 1) : test.text[i + 1].style # "todo"
    /\ test.done < test.test_length
    /\ fetch(test, test.done) # <<>> => test.text[test.done + 1].style = "todo"

C2_Witness ==
    /\ LastKeys("mismatch", "Control")
    /\ test.done > 0
    /\ test.blanks >= 1

\* C3: when a test completes after nothing but expected characters were
\* typed since it started, done is test_length, mistakes is 0 and correct is
\* the number of non-empty spans; while such a test runs, correct is the
\* number of non-empty spans below done, so every keystroke advances it; the
\* buffer "cat dog" completes on its 7th keystroke with correct = 7.
C3_PerfectRunCompletes ==
    /\ hist.clean =>
          /\ test.mistakes = 0
          /\ test.correct = Cardinality({i \in 0..(test.done - 1) :
                                            fetch(test, i) # <<>>})
    /\ (log # <<>> /\ log[1].clean) =>
          /\ log[1].done = log[1].test_length
          /\ log[1].mistakes = 0
          /\ log[1].correct = NonEmptySpans(log[1].text)
          /\ hist.keys # <<>> /\ LastKey.fresh
          /\ test.done = 0
          /\ TypeExpected(Fresh(CatDog), 6, CatDog).log = <<>>
          /\ LET w == TypeExpected(Fresh(CatDog), 7, CatDog)
             IN  /\ w.fresh
                 /\ w.log[1].correct = 7
                 /\ w.log[1].mistakes = 0
                 /\ w.log[1].done = w.log[1].test_length

C3_Witness ==
    /\ log # <<>>
    /\ log[1].clean
    /\ log[1].correct = 5
    /\ log[1].test_length = 7

\* C4 as stated: a mismatching character followed at once by Backspace
\* leaves done as it was before the character and the span there Pending.
C4_WrongThenBackspaceRestores ==
    LastKeys("mismatch", "Backspace") =>
        /\ test.done = hist.keys[1].done
        /\ test.text[test.done + 1].style = "todo"

\* C4 amended: the same, unless the mismatching character was typed on the
\* last span of the buffer, where it completes the test and a new one starts.
C4_WrongThenBackspaceRestoresUnlessLast ==
    (LastKeys("mismatch", "Backspace") /\ ~hist.keys[1].fresh) =>
        /\ test.done = hist.keys[1].done
        /\ test.text[test.done + 1].style = "todo"

C4_Witness ==
    /\ LastKeys("mismatch", "Backspace")
    /\ ~hist.keys[1].fresh
    /\ test.done > 0
    /\ test.current_char # " "

\* C5: Backspace and Control word-undo change neither mistakes nor correct
\* (nor test_length, the number of spans, the content of any span that is not
\* an overflow slot, should_quit); no key event lowers mistakes unless it
\* starts a new test; a mismatching character followed at once by Backspace
\* in the same test leaves mistakes one above its value before the two.
C5_UndoKeepsCounters ==
    [][/\ (KeyBackspace \/ KeyControl) =>
            /\ test'.mistakes = test.mistakes
            /\ test'.correct = test.correct
            /\ test'.test_length = test.test_length
            /\ Len(test'.text) = Len(test.text)
            /\ \A i \in 0..(Len(test.text) - 1) :
                  ~IsSlot(test, i) => fetch(test', i) = fetch(test, i)
            /\ app'.should_quit = app.should_quit
       /\ \/ test'.mistakes >= test.mistakes
          \/ (hist'.keys # <<>> /\ hist'.keys[Len(hist'.keys)].fresh)
       /\ (LastKeys("mismatch", "Backspace") /\ ~hist.keys[1].fresh
              => test.mistakes = hist.keys[1].mistakes + 1)'
      ]_vars

C5_Witness ==
    /\ LastKeys("mismatch", "Backspace")
    /\ ~hist.keys[1].fresh
    /\ hist.keys[1].mistakes >= 1
    /\ test.mistakes = hist.keys[1].mistakes + 1
    /\ test.correct >= 1

\* C16: an unmodified Escape sets should_quit; once should_quit is set the
\* only step left is the exit of the loop, so nothing is drawn and no key
\* event is handled after it.
C16_EscapeEndsLoop ==
    [][/\ KeyEsc => app'.should_quit /\ main_pc' = "loop"
       /\ app.should_quit =>
             /\ main_pc = "loop"
             /\ main_pc' = "exit"
             /\ UNCHANGED <<app, test, log, hist>>
      ]_vars

C16_Witness ==
    /\ main_pc = "exit"
    /\ app.should_quit
    /\ LastKey.kind = "Esc"
    /\ test.done > 0

\* C17: a character keystroke completes and restarts the test exactly when
\* the span at done is the last one, whether it matches or not; the summary
\* then shows done = test_length and the last span styled by the outcome;
\* done = test_length is never seen between two key events.
C17_RestartExactlyAtLastSpan ==
    [][/\ KeyChar =>
            /\ (log' # <<>>) <=> (test.done + 1 = test.test_length)
            /\ hist'.keys[Len(hist'.keys)].fresh
                  <=> (test.done + 1 = test.test_length)
            /\ log' # <<>> =>
                  /\ log'[1].done = log'[1].test_length
                  /\ log'[1].test_length = test.test_length
                  /\ log'[1].text[test.done + 1].style
                        = IF hist'.keys[Len(hist'.keys)].kind = "match"
                          THEN "done" ELSE "wrong"
                  /\ test'.done = 0
       /\ (test.done < test.test_length)'
      ]_vars

C17_Witness ==
    /\ log # <<>>
    /\ LastKey.kind = "mismatch"
    /\ LastKey.fresh
    /\ log[1].test_length > 1
    /\ log[1].text[log[1].test_length].style = "wrong"

\* what C18 says of a Control step; glyphs_only leaves the overflow slots out
\* of the spans that have to be Pending
ControlUndoes(glyphs_only) ==
    KeyControl =>
        IF test.done = 0
        THEN UNCHANGED <<app, test>>
        ELSE /\ test'.done < test.done
             /\ test'.done = 0 \/ fetch(test', test'.done - 1) = <<" ">>
             /\ \A i \in test'.done..(Len(test'.text) - 1) :
                   \/ test'.text[i + 1].style = "todo"
                   \/ glyphs_only /\ IsSlot(test', i)
             /\ test'.current_char = Head(fetch(test', test'.done))

\* C18 as stated: a Control key event does nothing when done = 0; otherwise
\* it lowers done to a word boundary, leaves every span from done on Pending
\* and current_char the content of the span at done.
C18_ControlUndoesWord == [][ControlUndoes(FALSE)]_vars

\* C18 amended: the same, but every glyph and space span from done on is
\* Pending; the overflow slots keep the Incorrect style they are created with.
C18_ControlUndoesWordGlyphs == [][ControlUndoes(TRUE)]_vars

C18_Witness ==
    /\ LastKeys("match", "Control")
    /\ hist.keys[1].done >= 3
    /\ test.done = 3
    /\ fetch(test, 2) = <<" ">>

\* C19: blanks is the number of overflow slots below done.
C19_BlanksCountsPassedSlots ==
    test.blanks = Cardinality({i \in 0..(test.done - 1) : IsSlot(test, i)})

C19_Witness ==
    /\ LastKeys("Control", "Control")
    /\ hist.keys[1].done = 6
    /\ hist.keys[2].done = 3
    /\ test.done = 0
    /\ test.blanks = 0

\* what C20 says of the buffer under construction and of the buffer
\* returned: after every rendered word (but the last, once Finish has popped
\* its pair) comes an empty slot in slot_style and then a todo single space,
\* and nothing else is an empty or a space span
PairAfterEachWord(slot_style) ==
    LET spans == Flatten(GenLines(pt))
        slots == {k \in 1..Len(spans) : spans[k].content = <<>>}
        words == IF pt.pc = "done" THEN Len(pt.prep) - 1 ELSE pt.i
    IN  /\ Cardinality(slots) = words
        /\ \A k \in slots :
              /\ spans[k].style = slot_style
              /\ k > 1 /\ spans[k - 1].content \notin {<<>>, <<" ">>}
              /\ k < Len(spans) /\ spans[k + 1] = Span(<<" ">>, "todo")
        /\ \A k \in 1..Len(spans) :
              spans[k].content = <<" ">> => k - 1 \in slots
        /\ (pt.pc = "loop" /\ pt.i >= 1) => Len(spans) - 1 \in slots

\* C20 as stated: after each rendered word prep_test appends an empty
\* overflow-slot span and a single-space span, both in the Pending style.
C20_PairBothPending == PairAfterEachWord("todo")

\* C20 amended: after each rendered word prep_test appends an empty
\* overflow-slot span in the Incorrect style and a single-space span in the
\* Pending style.
C20_PairSlotIncorrectSpacePending == PairAfterEachWord("wrong")

C20_Witness ==
    /\ pt.pc = "loop"
    /\ pt.i = 2
    /\ Len(pt.test) = 1
    /\ pt.drawn[2].kind = "Paired"
    /\ Len(pt.tmp[1]) = Len(pt.prep[2]) + 4

\* C13: no overflow slot ever holds more than 8 characters, and a
\* mismatching character typed at a space whose slot holds 8 characters
\* leaves the text (contents and styles), done, blanks, current_char and the
\* cursor as they were.
C13_OverflowSlotCapped ==
    [][/\ \A i \in 0..(Len(test'.text) - 1) : Len(fetch(test', i)) <= OverflowCap
       /\ ( /\ KeyChar
            /\ hist'.keys[Len(hist'.keys)].kind = "mismatch"
            /\ test.current_char = " "
            /\ Len(fetch(test, test.done - 1)) = OverflowCap )
          => /\ test'.text = test.text
             /\ test'.done = test.done
             /\ test'.blanks = test.blanks
             /\ test'.current_char = test.current_char
             /\ app'.cursor_x = app.cursor_x
      ]_vars

\* a mismatch at a space that did not move the cursor: the character was
\* dropped, from a slot of 8 characters
C13_Witness ==
    /\ hist.keys # <<>>
    /\ LastKey.kind = "mismatch"
    /\ LastKey.done = test.done
    /\ LastKey.cursor_x = app.cursor_x
    /\ test.mistakes = LastKey.mistakes + 1
    /\ test.current_char = " "
    /\ Len(fetch(test, test.done - 1)) = OverflowCap

----------------------------------------------------------------------------
(* get_shuffled_words (langs.rs).  gs holds its locals: the lines of the   *)
(* word file, the indices the sampler yields, k the number of indices      *)
(* taken from prng, pos the number of lines line_iter has consumed.        *)

\* the words a line of the word file may hold
FilePool == {<<"a">>, <<"b", "a">>}

\* the word files: 1..MaxLines lines, one word each
WordFiles == SeqsUpTo(FilePool, MaxLines)

\* Randorst::gen(length, 0..bound): length indices of 0..bound-1 in
\* non-decreasing order, duplicates allowed
Randorst(length, bound) ==
    {s \in [1..length -> 0..(bound - 1)] :
        \A j \in 1..(length - 1) : s[j] <= s[j + 1]}

\* Iterator::nth on line_iter: consumes n + 1 lines and yields the last of
\* them, or consumes what is left and yields nothing
nth(g, n) ==
    IF g.pos + n < Len(g.lines)
    THEN [pos |-> g.pos + n + 1, item |-> <<g.lines[g.pos + n + 1]>>]
    ELSE [pos |-> Len(g.lines), item |-> <<>>]

\* the locals before the first index is taken
WordsStart(lines, prng, bound) ==
    [pc |-> "first", lines |-> lines, prng |-> prng, bound |-> bound, k |-> 0,
     last |-> 0, cached_word |-> 0, container |-> <<>>, pos |-> 0]

\* let mut last = prng.next().unwrap(); .. nth(last) .. container.push(out)
ExtractFirst(g) ==
    LET last == g.prng[1]
        r    == nth(g, last)
    IN  IF r.item = <<>>
        THEN [g EXCEPT !.pc = "panic", !.pos = r.pos]
        ELSE [g EXCEPT !.pc = "loop", !.k = 1, !.last = last, !.pos = r.pos,
                       !.container = <<r.item[1]>>,
                       !.cached_word = Len(r.item) - 1]

\* ExtractNext, had cached_word taken the index of the enumeration as it is
ExtractNextCachesEnumIndex(g) ==
    LET i   == g.k - 1
        val == g.prng[g.k + 1]
        r   == nth(g, val - g.last - 1)
    IN  IF val = g.last
        THEN [g EXCEPT !.k = g.k + 1,
                       !.container = Append(g.container,
                                            g.container[g.cached_word + 1])]
        ELSE IF r.item = <<>>
        THEN [g EXCEPT !.pc = "panic", !.pos = r.pos]
        ELSE [g EXCEPT !.k = g.k + 1, !.last = val, !.pos = r.pos,
                       !.container = Append(g.container, r.item[1]),
                       !.cached_word = i]

\* ExtractNext, had it skipped val - last lines before the one it takes
ExtractNextSkipsOneMore(g) ==
    LET i   == g.k - 1
        val == g.prng[g.k + 1]
        r   == nth(g, val - g.last)
    IN  IF val = g.last
        THEN [g EXCEPT !.k = g.k + 1,
                       !.container = Append(g.container,
                                            g.container[g.cached_word + 1])]
        ELSE IF r.item = <<>>
        THEN [g EXCEPT !.pc = "panic", !.pos = r.pos]
        ELSE [g EXCEPT !.k = g.k + 1, !.last = val, !.pos = r.pos,
                       !.container = Append(g.container, r.item[1]),
                       !.cached_word = i + 1]

\* one iteration of `for (i, val) in prng.enumerate()`
ExtractNext(g) ==
    LET i   == g.k - 1
        val == g.prng[g.k + 1]
        r   == nth(g, val - g.last - 1)
    IN  IF val = g.last
        THEN [g EXCEPT !.k = g.k + 1,
                       !.container = Append(g.container,
                                            g.container[g.cached_word + 1])]
        ELSE IF r.item = <<>>
        THEN [g EXCEPT !.pc = "panic", !.pos = r.pos]
        ELSE [g EXCEPT !.k = g.k + 1, !.last = val, !.pos = r.pos,
                       !.container = Append(g.container, r.item[1]),
                       !.cached_word = i + 1]

\* the orders FastRng::shuffle may leave a vector in
Shuffles(v) ==
    {[j \in 1..Len(v) |-> v[f[j]]] :
        f \in {h \in [1..Len(v) -> 1..Len(v)] :
                  \A x, y \in 1..Len(v) : h[x] = h[y] => x = y}}

\* a word file, a pool size not above its number of lines, 1..MaxWords indices
InitWords ==
    /\ \E lines \in WordFiles, length \in 1..MaxWords :
          \E bound \in 1..Len(lines) :
             \E prng \in Randorst(length, bound) :
                gs = WordsStart(lines, prng, bound)
    /\ pt = PrepIdle
    /\ app = [cursor_x |-> 0, should_quit |-> FALSE]
    /\ test = [text |-> <<>>]
    /\ main_pc = "idle"
    /\ log = <<>>
    /\ hist = NoHistory
    /\ cfg = Idle
    /\ sf = Idle

WordsFirst ==
    /\ gs.pc = "first"
    /\ gs' = ExtractFirst(gs)
    /\ UNCHANGED <<pt, app, test, main_pc, log, hist, cfg, sf>>

WordsNext ==
    /\ gs.pc = "loop"
    /\ gs.k < Len(gs.prng)
    /\ gs' = ExtractNext(gs)
    /\ UNCHANGED <<pt, app, test, main_pc, log, hist, cfg, sf>>

WordsShuffle ==
    /\ gs.pc = "loop"
    /\ gs.k = Len(gs.prng)
    /\ \E v \in Shuffles(gs.container) :
          gs' = [gs EXCEPT !.pc = "done", !.container = v]
    /\ UNCHANGED <<pt, app, test, main_pc, log, hist, cfg, sf>>

NextWords == WordsFirst \/ WordsNext \/ WordsShuffle

SpecWords == InitWords /\ [][NextWords]_vars

\* the word of source line i (0-based)
Line(g, i) == g.lines[i + 1]

\* C11: before the shuffle the k-th word extracted is the content of source
\* line i_k for every k taken so far; a repeated index adds the word of its
\* first occurrence and consumes no line; the shuffle only reorders.
C11_ExtractsSampledLines ==
    [][/\ gs'.pc = "loop" =>
             /\ Len(gs'.container) = gs'.k
             /\ \A j \in 1..gs'.k : gs'.container[j] = Line(gs', gs'.prng[j])
       /\ (WordsNext /\ gs.prng[gs.k + 1] = gs.last) =>
             /\ gs'.pos = gs.pos
             /\ \E j \in 1..gs.k :
                   /\ gs.prng[j] = gs.prng[gs.k + 1]
                   /\ \A h \in 1..(j - 1) : gs.prng[h] # gs.prng[j]
                   /\ gs'.container = Append(gs.container, gs.container[j])
       /\ WordsShuffle =>
             /\ gs'.container \in Shuffles(gs.container)
             /\ gs'.pos = gs.pos
       /\ gs'.pc # "panic"
      ]_vars

C11_Witness ==
    /\ gs.pc = "loop"
    /\ gs.k = 3
    /\ Len(gs.prng) = 3
    /\ 0 < gs.prng[1]
    /\ gs.prng[1] < gs.prng[2]
    /\ gs.prng[2] = gs.prng[3]
    /\ gs.container[1] # gs.container[2]
    /\ gs.container[3] = Line(gs, gs.prng[3])

\* C12: the lines are consumed in one forward pass; once the first index is
\* taken the number of lines consumed is the last index taken plus one, at
\* the end the largest sampled index plus one, never more than the bound.
C12_ConsumesUpToLargestIndex ==
    [][/\ gs'.pos >= gs.pos
       /\ gs'.pc # "panic"
       /\ gs'.pc \in {"loop", "done"} =>
             /\ gs'.pos = gs'.prng[gs'.k] + 1
             /\ gs'.pos <= Max({gs'.prng[j] : j \in 1..Len(gs'.prng)}) + 1
             /\ gs'.pos <= gs'.bound
       /\ gs'.pc = "done" =>
             gs'.pos = Max({gs'.prng[j] : j \in 1..Len(gs'.prng)}) + 1
      ]_vars

C12_Witness ==
    /\ gs.pc = "done"
    /\ Len(gs.prng) = 3
    /\ gs.prng[1] = 1
    /\ gs.prng[2] = 1
    /\ gs.prng[3] = 3
    /\ gs.bound = 4
    /\ gs.pos = 4

----------------------------------------------------------------------------
(* decode_test_mod_bitflags and create_frequency_list (settings.rs).  sf   *)
(* holds the locals of the one that runs.                                  *)

TestMod == {"Punctuation", "Numbers", "Symbols"}

\* the values of a u8
U8 == 0..255

\* 2_u8.pow(i) and the divisor of `>> i`
RECURSIVE Pow2(_)
Pow2(i) == IF i = 0 THEN 1 ELSE 2 * Pow2(i - 1)

\* TestMod::from_bitflag, had the arms of Numbers and Symbols changed places
FromBitflagSwapped(bitflag) ==
    CASE bitflag = 1 -> <<"Punctuation">>
      [] bitflag = 2 -> <<"Symbols">>
      [] bitflag = 4 -> <<"Numbers">>
      [] OTHER -> <<>>

\* TestMod::from_bitflag; <<>> stands for unreachable!()
from_bitflag(bitflag) ==
    CASE bitflag = 1 -> <<"Punctuation">>
      [] bitflag = 2 -> <<"Numbers">>
      [] bitflag = 4 -> <<"Symbols">>
      [] OTHER -> <<>>

DecodeStart(bitflag) ==
    [fn |-> "decode", pc |-> "loop", bitflag |-> bitflag, i |-> 0,
     test_mods |-> {}]

\* one iteration of `for i in 0..8`
DecodeBit(d) ==
    IF (d.bitflag \div Pow2(d.i)) % 2 = 1
    THEN LET m == from_bitflag(Pow2(d.i) % 256)
         IN  IF m = <<>> THEN [d EXCEPT !.pc = "panic"]
             ELSE [d EXCEPT !.test_mods = d.test_mods \cup {m[1]},
                            !.i = d.i + 1]
    ELSE [d EXCEPT !.i = d.i + 1]

RECURSIVE DecodeRun(_)
DecodeRun(d) ==
    IF d.pc = "panic" THEN d
    ELSE IF d.i = 8 THEN [d EXCEPT !.pc = "done"]
    ELSE DecodeRun(DecodeBit(d))

decode_test_mod_bitflags(bitflag) == DecodeRun(DecodeStart(bitflag))

\* the presets of create_frequency_list
Presets == <<100, 1000, 5000, 10000, 20000, 50000>>

Digits == <<"0", "1", "2", "3", "4", "5", "6", "7", "8", "9">>

\* usize::to_string: the decimal digits, most significant first
RECURSIVE to_string(_)
to_string(n) ==
    IF n < 10 THEN <<Digits[n + 1]>>
    ELSE Append(to_string(n \div 10), Digits[(n % 10) + 1])

FreqStart(word_count) ==
    [fn |-> "freq", pc |-> "filter", word_count |-> word_count, j |-> 0,
     initial |-> <<>>]

\* FreqFilter, had it kept the presets not above word_count
FreqFilterInclusive(f) ==
    IF Presets[f.j + 1] <= f.word_count
    THEN [f EXCEPT !.initial = Append(f.initial, to_string(Presets[f.j + 1])),
                   !.j = f.j + 1]
    ELSE [f EXCEPT !.j = f.j + 1]

\* .filter(|&x| *x < word_count).map(|x| x.to_string()) on one preset
FreqFilter(f) ==
    IF Presets[f.j + 1] < f.word_count
    THEN [f EXCEPT !.initial = Append(f.initial, to_string(Presets[f.j + 1])),
                   !.j = f.j + 1]
    ELSE [f EXCEPT !.j = f.j + 1]

\* initial.push(word_count.to_string()); StatefulList::with_items(initial)
FreqPush(f) ==
    [f EXCEPT !.initial = Append(f.initial, to_string(f.word_count)),
              !.pc = "done"]

RECURSIVE FreqRun(_)
FreqRun(f) ==
    IF f.j = Len(Presets) THEN FreqPush(f) ELSE FreqRun(FreqFilter(f))

create_frequency_list(word_count) == FreqRun(FreqStart(word_count)).initial

\* the word counts of the model: those of the tests of settings.rs, none,
\* one, and the values around every preset
WordCounts ==
    {0, 1, 20, 15889, 69000}
    \cup {n \in UNION {(Presets[k] - CountSpread)..(Presets[k] + CountSpread) :
                          k \in 1..Len(Presets)} : n >= 0}

InitSettings ==
    /\ sf \in {DecodeStart(b) : b \in U8} \cup {FreqStart(n) : n \in WordCounts}
    /\ pt = PrepIdle
    /\ app = [cursor_x |-> 0, should_quit |-> FALSE]
    /\ test = [text |-> <<>>]
    /\ main_pc = "idle"
    /\ log = <<>>
    /\ hist = NoHistory
    /\ cfg = Idle
    /\ gs = Idle

SettingsDecodeBit ==
    /\ sf.fn = "decode"
    /\ sf.pc = "loop"
    /\ sf.i < 8
    /\ sf' = DecodeBit(sf)
    /\ UNCHANGED <<pt, app, test, main_pc, log, hist, cfg, gs>>

SettingsDecodeReturn ==
    /\ sf.fn = "decode"
    /\ sf.pc = "loop"
    /\ sf.i = 8
    /\ sf' = [sf EXCEPT !.pc = "done"]
    /\ UNCHANGED <<pt, app, test, main_pc, log, hist, cfg, gs>>

SettingsFreqFilter ==
    /\ sf.fn = "freq"
    /\ sf.pc = "filter"
    /\ sf.j < Len(Presets)
    /\ sf' = FreqFilter(sf)
    /\ UNCHANGED <<pt, app, test, main_pc, log, hist, cfg, gs>>

SettingsFreqPush ==
    /\ sf.fn = "freq"
    /\ sf.pc = "filter"
    /\ sf.j = Len(Presets)
    /\ sf' = FreqPush(sf)
    /\ UNCHANGED <<pt, app, test, main_pc, log, hist, cfg, gs>>

NextSettings ==
    \/ SettingsDecodeBit
    \/ SettingsDecodeReturn
    \/ SettingsFreqFilter
    \/ SettingsFreqPush

SpecSettings == InitSettings /\ [][NextSettings]_vars

\* the TestMods whose bit is set in b, by BITFLAG_MODS
ModsOf(b) ==
    (IF b % 2 = 1 THEN {"Punctuation"} ELSE {})
    \cup (IF (b \div 2) % 2 = 1 THEN {"Numbers"} ELSE {})
    \cup (IF (b \div 4) % 2 = 1 THEN {"Symbols"} ELSE {})

\* C14: for a bitflag of 0..7 decode_test_mod_bitflags returns, without
\* reaching unreachable!(), exactly the TestMods whose bit is set: bit 0
\* Punctuation, bit 1 Numbers, bit 2 Symbols, the empty set for 0.
C14_DecodesDefinedBits ==
    (sf.fn = "decode" /\ sf.bitflag \in 0..7) =>
        /\ sf.pc # "panic"
        /\ sf.pc = "done" =>
              /\ sf.test_mods = ModsOf(sf.bitflag)
              /\ sf.test_mods = decode_test_mod_bitflags(sf.bitflag).test_mods
              /\ sf.bitflag = 0 => sf.test_mods = {}

C14_Witness ==
    /\ sf.fn = "decode"
    /\ sf.pc = "done"
    /\ sf.bitflag = 6
    /\ sf.test_mods = {"Numbers", "Symbols"}

\* the number a string of decimal digits stands for
RECURSIVE ParseNat(_)
ParseNat(str) ==
    IF str = <<>> THEN 0
    ELSE 10 * ParseNat(SubSeq(str, 1, Len(str) - 1))
         + (CHOOSE d \in 0..9 : Digits[d + 1] = str[Len(str)])

PresetSet == {Presets[k] : k \in 1..Len(Presets)}

\* C15: create_frequency_list returns the presets strictly below word_count
\* in ascending order and then word_count itself; the items are strictly
\* increasing, without duplicate, none above word_count.
C15_FrequencyListAscendingToWordCount ==
    (sf.fn = "freq" /\ sf.pc = "done") =>
        LET items == sf.initial
            n     == Len(items)
            val   == [k \in 1..n |-> ParseNat(items[k])]
        IN  /\ n >= 1
            /\ \A k \in 1..n : items[k] = to_string(val[k])
            /\ val[n] = sf.word_count
            /\ {val[k] : k \in 1..(n - 1)}
                  = {p \in PresetSet : p < sf.word_count}
            /\ \A k \in 1..(n - 1) : val[k] < val[k + 1]
            /\ \A k \in 1..n : val[k] <= sf.word_count
            /\ \A h, k \in 1..n : items[h] = items[k] => h = k
            /\ items = create_frequency_list(sf.word_count)

C15_Witness ==
    /\ sf.fn = "freq"
    /\ sf.pc = "done"
    /\ sf.word_count = 1000
    /\ sf.initial = <<<<"1", "0", "0">>, <<"1", "0", "0", "0">>>>

----------------------------------------------------------------------------
(* The order of the lines prep_test returns *)

\* the words of a line: one before every space, and the last word of the
\* list on the line that has lost its pair
WordsIn(line) ==
    SpaceSpans(line) + (IF line # <<>> /\ ~EndsWithPair(line) THEN 1 ELSE 0)

\* C21 as stated: the line at index 0 of the buffer returned has the fewest
\* words of all its lines.
C21_FirstLineHasFewestWords ==
    pt.pc = "done" =>
        \A k \in 1..Len(pt.test) : WordsIn(pt.test[1]) <= WordsIn(pt.test[k])

\* C21 amended: the line at index 0 is the line generated last, holding the
\* last word and no trailing pair, whatever its number of words; the line
\* generated first takes its place at the end and the lines between keep
\* theirs.
C21_FirstLineIsLastGenerated ==
    [][PrepFinish =>
          LET gen == pt.test \o pt.tmp
              n   == Len(gen)
          IN  /\ Len(pt'.test) = n
              /\ pt'.test[1] = Pop(Pop(gen[n]))
              /\ n > 1 => pt'.test[n] = gen[1]
              /\ \A k \in 2..(n - 1) : pt'.test[k] = gen[k]
      ]_vars

\* two lines returned, the one at index 0 with more words than the other
C21_Witness ==
    /\ pt.pc = "done"
    /\ Len(pt.test) = 2
    /\ WordsIn(pt.test[1]) = 2
    /\ WordsIn(pt.test[2]) = 1

----------------------------------------------------------------------------
(* The cursor and the overflow slots *)

\* the characters held by the overflow slots of t
SlotChars(t) ==
    SumSeq([k \in 1..Len(t.text) |->
               IF IsSlot(t, k - 1) THEN Len(t.text[k].content) ELSE 0])

\* C24: the cursor's offset from its column at the start of the test is
\* done - blanks plus the characters held by the overflow slots, and none of
\* cursor_x, done and blanks has gone below zero (for the unsigned cursor_x:
\* has wrapped around).
C24_CursorTracksProgress ==
    /\ app.cursor_x - CursorStart = (test.done - test.blanks) + SlotChars(test)
    /\ test.done >= 0
    /\ test.blanks >= 0

\* C25: every overflow slot at an index >= done is empty.
C25_SlotsAheadAreEmpty ==
    \A i \in test.done..(Len(test.text) - 1) :
        IsSlot(test, i) => fetch(test, i) = <<>>

\* a slot that held overflow characters was stepped back over by Control and
\* lies ahead of done
C25_Witness ==
    /\ LastKeys("mismatch", "Control")
    /\ hist.keys[1].done = hist.keys[2].done
    /\ hist.keys[2].done >= 2
    /\ test.done < hist.keys[2].done
    /\ IsSlot(test, hist.keys[2].done - 1)
    /\ fetch(test, hist.keys[2].done - 1) = <<>>

----------------------------------------------------------------------------
(* Settings (settings.rs): the constructors and enter, escape, up, down,   *)
(* left, right.  sf holds the Settings value, the storage it reads (the    *)
(* number of lines of every word list and script) and the constructor that *)
(* made it.                                                                *)

\* SetList
Nil == "Nil"
SetList == {"Length", "Frequency", "Test", "Mods", Nil}

English == <<"e", "n", "g", "l", "i", "s", "h">>
Tiny    == <<"t", "i", "n", "y">>
Absent  == <<"n", "o", "n", "e">>

\* SCRIPT_SIGN
SCRIPT_SIGN == <<"#", "!">>

\* is_script: the first two bytes are the script sign
is_script(text) ==
    IF StrLen(text) < 2 THEN FALSE ELSE SubSeq(text, 1, 2) = SCRIPT_SIGN

\* the storages of the model: the lines of each word list and each script
Storages ==
    {[words   |-> (English :> e) @@ (Tiny :> 20),
      scripts |-> (<<"s">> :> 3)] : e \in {101, 1000}}

\* storage::get_word_list_path(name)
get_word_list_path(name) == [dir |-> "words", file |-> name]

\* TypingTestConfig::get_file_path
get_file_path(c) ==
    IF c.variant = "Standard" THEN get_word_list_path(c.name)
    ELSE [dir |-> "scripts", file |-> SubSeq(c.name, 3, Len(c.name))]

\* Path::is_file
is_file(st, path) == path.file \in DOMAIN st[path.dir]

\* count_lines_from_path: Ok(lines) as <<lines>>, Err as <<>>
count_lines_from_path(st, path) ==
    IF is_file(st, path) THEN <<st[path.dir][path.file]>> ELSE <<>>

\* storage::parse_storage_contents: the word lists, then the scripts signed
parse_storage_contents(st) == <<English, Tiny, SCRIPT_SIGN \o <<"s">>>>

\* StatefulList::with_items: nothing selected
with_items(items) == [items |-> items, selected |-> <<>>]

\* StatefulList::get_item: the item selected
get_item(l) == l.items[l.selected[1] + 1]

\* StatefulList::next and previous: around the list, from nothing to the first
next(l) ==
    [l EXCEPT !.selected = IF l.selected = <<>> THEN <<0>>
                           ELSE <<(l.selected[1] + 1) % Len(l.items)>>]

previous(l) ==
    [l EXCEPT !.selected = IF l.selected = <<>> THEN <<0>>
                           ELSE <<(l.selected[1] - 1) % Len(l.items)>>]


\* vec_of_strings!["10", "15", "25", "50", "100"]
LengthItems ==
    <<<<"1", "0">>, <<"1", "5">>, <<"2", "5">>, <<"5", "0">>, <<"1", "0", "0">>>>

\* TEST_MODS, left values and the mod of each
ModItems ==
    <<<<"p", "u", "n", "c", "t", "u", "a", "t", "i", "o", "n">>,
      <<"n", "u", "m", "b", "e", "r", "s">>,
      <<"s", "y", "m", "b", "o", "l", "s">>>>

ModOf(item) ==
    CASE item = ModItems[1] -> "Punctuation"
      [] item = ModItems[2] -> "Numbers"
      [] item = ModItems[3] -> "Symbols"

\* str::parse::<usize>: Ok(n) as <<n>>, Err as <<>>
parse_usize(str) ==
    IF str # <<>> /\ \A k \in 1..Len(str) : \E d \in 1..10 : Digits[d] = str[k]
    THEN <<ParseNat(str)>>
    ELSE <<>>

\* the configurations handed to with_config
Configs ==
    {[name |-> n, variant |-> IF is_script(n) THEN "Script" ELSE "Standard",
      length |-> 25, word_pool |-> p, mods |-> {}] :
        n \in {English, Tiny, Absent, SCRIPT_SIGN \o <<"s">>},
        p \in {50, 5000}}

\* TypingTestConfig::default
DefaultConfig ==
    [name |-> English, variant |-> "Standard", length |-> 25,
     word_pool |-> 5000, mods |-> {}]

\* validate, had it left word_pool as configured
ValidateNoClamp(c, st) ==
    LET path  == get_file_path(c)
        d     == IF ~is_file(st, path) THEN [c EXCEPT !.name = English] ELSE c
        lines == count_lines_from_path(st, path)
    IN  IF lines = <<>> THEN [ok |-> FALSE, cfg |-> d, lines |-> 0]
        ELSE [ok |-> TRUE, cfg |-> d, lines |-> lines[1]]

\* TypingTestConfig::validate; ok = FALSE stands for the panic of expect
validate(c, st) ==
    LET path  == get_file_path(c)
        d     == IF ~is_file(st, path) THEN [c EXCEPT !.name = English] ELSE c
        lines == count_lines_from_path(st, path)
    IN  IF lines = <<>> THEN [ok |-> FALSE, cfg |-> d, lines |-> 0]
        ELSE [ok |-> TRUE,
              cfg |-> IF d.word_pool > lines[1] THEN [d EXCEPT !.word_pool = lines[1]]
                      ELSE d,
              lines |-> lines[1]]

\* the fields both constructors fill alike
NewSettings(st, made_by, test_cfg, word_count) ==
    [fn |-> "settings", pc |-> "ready", st |-> st, made_by |-> made_by,
     hovered |-> "Length", active |-> Nil,
     test_cfg |-> test_cfg,
     length_list |-> with_items(LengthItems),
     frequency_list |-> with_items(create_frequency_list(word_count)),
     tests_list |-> with_items(parse_storage_contents(st)),
     mods_list |-> with_items(ModItems),
     word_amount_cache |-> (test_cfg.name :> word_count)]

Panicked(st, made_by, test_cfg) ==
    [fn |-> "settings", pc |-> "panic", st |-> st, made_by |-> made_by,
     test_cfg |-> test_cfg]

\* impl Default for Settings
default(st) ==
    LET word_count == count_lines_from_path(st, get_word_list_path(DefaultConfig.name))
    IN  IF word_count = <<>> THEN Panicked(st, "default", DefaultConfig)
        ELSE NewSettings(st, "default", DefaultConfig, word_count[1])

\* Settings::with_config
with_config(st, ttc) ==
    LET v == validate(ttc, st)
    IN  IF ~v.ok THEN Panicked(st, "with_config", v.cfg)
        ELSE NewSettings(st, "with_config", v.cfg, v.lines)

\* the field get_list borrows; <<>> for None
get_list(sl) ==
    CASE sl = "Length"    -> <<"length_list">>
      [] sl = "Frequency" -> <<"frequency_list">>
      [] sl = "Mods"      -> <<"mods_list">>
      [] sl = "Test"      -> <<"tests_list">>
      [] sl = Nil         -> <<>>

\* Settings::escape (the value returned is not kept)
escape(s) ==
    IF s.hovered # Nil THEN s
    ELSE [s EXCEPT !.hovered = s.active, !.active = Nil]

\* Settings::get_word_count
get_word_count(s, key) ==
    IF key \in DOMAIN s.word_amount_cache
    THEN [s |-> s, word_count |-> <<s.word_amount_cache[key]>>]
    ELSE LET n == count_lines_from_path(s.st, get_word_list_path(key))
         IN  IF n = <<>> THEN [s |-> s, word_count |-> <<>>]
             ELSE [s |-> [s EXCEPT !.word_amount_cache = (key :> n[1]) @@ @],
                   word_count |-> n]

\* the SetList::Test arm of enter
EnterTest(s) ==
    LET chosen_test_name == get_item(s.tests_list)
    IN  IF is_script(chosen_test_name)
        THEN [s EXCEPT !.test_cfg.variant = "Script",
                       !.test_cfg.name = chosen_test_name]
        ELSE LET g == get_word_count(s, chosen_test_name)
             IN  IF g.word_count = <<>> THEN [s EXCEPT !.pc = "panic"]
                 ELSE [g.s EXCEPT
                         !.test_cfg.variant = "Standard",
                         !.frequency_list =
                             with_items(create_frequency_list(g.word_count[1])),
                         !.test_cfg.word_pool =
                             IF @ > g.word_count[1] THEN g.word_count[1] ELSE @,
                         !.test_cfg.name = chosen_test_name]

\* the SetList::Frequency arm of enter
EnterFrequency(s) ==
    LET n == parse_usize(get_item(s.frequency_list))
    IN  [s EXCEPT !.test_cfg.word_pool = IF n = <<>> THEN 69 ELSE n[1]]

\* Activate, had it kept hovered
ActivateKeepsHovered(s) ==
    LET f == get_list(s.hovered)[1]
    IN  [s EXCEPT !.active = s.hovered,
                  ![f] = IF s[f].selected = <<>>
                         THEN [s[f] EXCEPT !.selected = <<0>>] ELSE s[f]]

\* enter with a list hovered: the list becomes the active one, its first
\* item selected if none was
Activate(s) ==
    LET f == get_list(s.hovered)[1]
    IN  [s EXCEPT !.active = s.hovered, !.hovered = Nil,
                  ![f] = IF s[f].selected = <<>>
                         THEN [s[f] EXCEPT !.selected = <<0>>] ELSE s[f]]

\* Settings::enter
enter(s) ==
    IF s.hovered # Nil THEN Activate(s)
    ELSE CASE s.active = "Length" ->
                LET n == parse_usize(get_item(s.length_list))
                IN  IF n = <<>> THEN [s EXCEPT !.pc = "panic"]
                    ELSE [s EXCEPT !.test_cfg.length = n[1]]
           [] s.active = "Test" -> EnterTest(s)
           [] s.active = "Frequency" -> EnterFrequency(s)
           [] s.active = "Mods" ->
                LET test_mod == ModOf(get_item(s.mods_list))
                IN  [s EXCEPT !.test_cfg.mods =
                        IF test_mod \in @ THEN @ \ {test_mod}
                        ELSE @ \cup {test_mod}]
           [] s.active = Nil -> [s EXCEPT !.pc = "panic"]

\* up and down on a hovered list
Vertical(sl) ==
    CASE sl = "Length"    -> "Test"
      [] sl = "Test"      -> "Length"
      [] sl = "Frequency" -> "Mods"
      [] sl = "Mods"      -> "Frequency"

\* left and right on a hovered list
Horizontal(sl) ==
    CASE sl = "Length"    -> "Frequency"
      [] sl = "Test"      -> "Mods"
      [] sl = "Frequency" -> "Length"
      [] sl = "Mods"      -> "Test"

\* Settings::up
up(s) ==
    IF s.hovered # Nil THEN [s EXCEPT !.hovered = Vertical(s.hovered)]
    ELSE IF get_list(s.active) = <<>> THEN [s EXCEPT !.pc = "panic"]
    ELSE LET f == get_list(s.active)[1] IN [s EXCEPT ![f] = previous(s[f])]

\* Settings::down
down(s) ==
    IF s.hovered # Nil THEN [s EXCEPT !.hovered = Vertical(s.hovered)]
    ELSE IF get_list(s.active) = <<>> THEN [s EXCEPT !.pc = "panic"]
    ELSE LET f == get_list(s.active)[1] IN [s EXCEPT ![f] = next(s[f])]

\* Settings::left and Settings::right: with nothing hovered the active list
\* becomes the hovered one and the call is made again; with nothing active
\* either the call would repeat without end
left(s) ==
    IF s.hovered # Nil THEN [s EXCEPT !.hovered = Horizontal(s.hovered)]
    ELSE IF s.active = Nil THEN [s EXCEPT !.pc = "panic"]
    ELSE [s EXCEPT !.hovered = Horizontal(s.active), !.active = Nil]

right(s) ==
    IF s.hovered # Nil THEN [s EXCEPT !.hovered = Horizontal(s.hovered)]
    ELSE IF s.active = Nil THEN [s EXCEPT !.pc = "panic"]
    ELSE [s EXCEPT !.hovered = Horizontal(s.active), !.active = Nil]

InitMenu ==
    /\ sf \in {[fn |-> "settings", pc |-> "new", st |-> st, ttc |-> c] :
                  st \in Storages, c \in Configs}
    /\ pt = PrepIdle
    /\ app = [cursor_x |-> 0, should_quit |-> FALSE]
    /\ test = [text |-> <<>>]
    /\ main_pc = "idle"
    /\ log = <<>>
    /\ hist = NoHistory
    /\ cfg = Idle
    /\ gs = Idle

MenuRest == <<pt, app, test, main_pc, log, hist, cfg, gs>>

MenuDefault ==
    /\ sf.pc = "new"
    /\ sf' = default(sf.st)
    /\ UNCHANGED MenuRest

MenuWithConfig ==
    /\ sf.pc = "new"
    /\ sf' = with_config(sf.st, sf.ttc)
    /\ UNCHANGED MenuRest

MenuEnter  == sf.pc = "ready" /\ sf' = enter(sf)  /\ UNCHANGED MenuRest
MenuEscape == sf.pc = "ready" /\ sf' = escape(sf) /\ UNCHANGED MenuRest

\* in the lists of lengths and of mods the runs stay within the first items
MenuUp ==
    /\ sf.pc = "ready"
    /\ (sf.hovered = Nil /\ sf.active \in {"Length", "Mods"}) =>
          sf[get_list(sf.active)[1]].selected[1] > 0
    /\ sf' = up(sf)
    /\ UNCHANGED MenuRest

MenuDown ==
    /\ sf.pc = "ready"
    /\ (sf.hovered = Nil /\ sf.active \in {"Length", "Mods"}) =>
          sf[get_list(sf.active)[1]].selected[1] < SideItems
    /\ sf' = down(sf)
    /\ UNCHANGED MenuRest

MenuLeft   == sf.pc = "ready" /\ sf' = left(sf)   /\ UNCHANGED MenuRest
MenuRight  == sf.pc = "ready" /\ sf' = right(sf)  /\ UNCHANGED MenuRest

NextMenu ==
    \/ MenuDefault
    \/ MenuWithConfig
    \/ MenuEnter
    \/ MenuEscape
    \/ MenuUp
    \/ MenuDown
    \/ MenuLeft
    \/ MenuRight

SpecMenu == InitMenu /\ [][NextMenu]_vars

\* C22: in a Settings made by with_config, whenever the variant is Standard
\* the word list named by test_cfg.name exists and word_pool does not exceed
\* its number of lines.
C22_PoolWithinWordList ==
    (sf.fn = "settings" /\ sf.pc = "ready" /\ sf.made_by = "with_config"
        /\ sf.test_cfg.variant = "Standard") =>
        /\ sf.test_cfg.name \in DOMAIN sf.st.words
        /\ sf.test_cfg.word_pool <= sf.st.words[sf.test_cfg.name]

\* the shorter list chosen after the longer one, the pool cut down to it
C22_Witness ==
    /\ sf.fn = "settings"
    /\ sf.pc = "ready"
    /\ sf.made_by = "with_config"
    /\ sf.test_cfg.variant = "Standard"
    /\ sf.test_cfg.name = Tiny
    /\ sf.test_cfg.word_pool = sf.st.words[Tiny]
    /\ DOMAIN sf.word_amount_cache = {English, Tiny}
    /\ sf.st.words[English] = 1000
    /\ sf.frequency_list.selected # <<>>

\* C23: with a configured name that is no file, with_config's validate does
\* not fail: the name becomes english, the lines counted (kept in the cache
\* and as the last item of the frequency list) are those of the english
\* list, and word_pool is at most that count.
C23_FallsBackToEnglish ==
    [][(MenuWithConfig /\ ~is_file(sf.st, get_file_path(sf.ttc))) =>
          /\ sf'.pc = "ready"
          /\ sf'.test_cfg.name = English
          /\ sf'.word_amount_cache[English] = sf.st.words[English]
          /\ sf'.test_cfg.word_pool
                = IF sf.ttc.word_pool > sf.st.words[English]
                  THEN sf.st.words[English] ELSE sf.ttc.word_pool
      ]_vars

\* C26: in a Settings made by either constructor exactly one of hovered and
\* active is Nil, and no call of enter, escape, up, down, left or right
\* ends in a panic.
C26_ExactlyOneOfHoveredActiveNil ==
    [][/\ (sf'.fn = "settings" /\ sf'.pc = "ready") =>
             (sf'.hovered = Nil) # (sf'.active = Nil)
       /\ sf.pc = "ready" => sf'.pc = "ready"
      ]_vars

C26_Witness ==
    /\ sf.fn = "settings"
    /\ sf.pc = "ready"
    /\ sf.made_by = "default"
    /\ sf.hovered = Nil
    /\ sf.active = "Mods"
    /\ sf.test_cfg.mods = {"Punctuation"}
    /\ sf.tests_list.selected # <<>>

=============================================================================
